---- MODULE Spec2Model ----
(***************************************************************************)
(* Unit assignment and narrative generation of the borehole analyzer       *)
(* (src/app.py, "SUBSURFACE CONDITIONS SUMMARY TABLE").                     *)
(*                                                                         *)
(* Representation.  A Python str is a sequence of one-character strings,   *)
(* so that strip, split, upper, lower, join and the lexical order of       *)
(* sorted() are computed character by character.  A missing value (NaN /   *)
(* None) is the one-element sequence NaN, which no string equals.  Depths  *)
(* (TOP, BASE) are fixed-point numbers in decimetres (0.1 m); AvgDepth is   *)
(* kept in half-decimetres (0.05 m) so that (TOP + BASE) / 2 is exact.     *)
(* Binary floating-point rounding is outside the model.                    *)
(***************************************************************************)
EXTENDS Integers, Sequences, FiniteSets, TLC

VARIABLES df, columns, pc, df_with_units, summary_table,
          unit_df, description, extent, legend, group

vars == <<df, columns, pc, df_with_units, summary_table,
          unit_df, description, extent, legend, group>>

----------------------------------------------------------------------------
(* Bounds of the model *)

MaxLayers == 3

MaxDepth == 4

MaxPad == 1

----------------------------------------------------------------------------
(* Python / pandas primitives *)

NaN == <<"NaN">>

isna(x) == x = NaN

EnDash == "EnDash"

CharOrder ==
  <<"\t", "\n", " ", "(", ")", ",", "-", ".",
    "0", "1", "2", "3", "4", "5", "6", "7", "8", "9", ":",
    "A", "B", "C", "D", "E", "F", "G", "H", "I", "J", "K", "L", "M",
    "N", "O", "P", "Q", "R", "S", "T", "U", "V", "W", "X", "Y", "Z", "_",
    "a", "b", "c", "d", "e", "f", "g", "h", "i", "j", "k", "l", "m",
    "n", "o", "p", "q", "r", "s", "t", "u", "v", "w", "x", "y", "z", EnDash>>

Ord(c) == CHOOSE i \in 1..Len(CharOrder) : CharOrder[i] = c

UpperCase == <<"A", "B", "C", "D", "E", "F", "G", "H", "I", "J", "K", "L", "M", "N", "O", "P", "Q", "R", "S", "T", "U", "V", "W", "X", "Y", "Z">>

LowerCase == <<"a", "b", "c", "d", "e", "f", "g", "h", "i", "j", "k", "l", "m", "n", "o", "p", "q", "r", "s", "t", "u", "v", "w", "x", "y", "z">>

Whitespace == {" ", "\t", "\n"}

Digits == <<"0", "1", "2", "3", "4", "5", "6", "7", "8", "9">>

\* a sequence given by a function expression, with its items computed once
list(f) == SubSeq(f, 1, Len(f))

SetMin(S) == CHOOSE x \in S : \A y \in S : x <= y

SetMax(S) == CHOOSE x \in S : \A y \in S : y <= x

RECURSIVE SumSeq(_)
SumSeq(s) == IF s = <<>> THEN 0 ELSE s[1] + SumSeq(Tail(s))

\* str < str: code-point lexicographic order
StrLess(a, b) ==
  LET n == IF Len(a) < Len(b) THEN Len(a) ELSE Len(b)
      diff == {i \in 1..n : a[i] # b[i]}
  IN  IF diff = {} THEN Len(a) < Len(b)
      ELSE Ord(a[SetMin(diff)]) < Ord(b[SetMin(diff)])

upper(s) ==
  list([i \in 1..Len(s) |->
     IF \E k \in 1..26 : LowerCase[k] = s[i]
     THEN UpperCase[CHOOSE k \in 1..26 : LowerCase[k] = s[i]] ELSE s[i]])

lower(s) ==
  list([i \in 1..Len(s) |->
     IF \E k \in 1..26 : UpperCase[k] = s[i]
     THEN LowerCase[CHOOSE k \in 1..26 : UpperCase[k] = s[i]] ELSE s[i]])

\* str.strip(): drop leading and trailing whitespace
strip(s) ==
  LET keep == {i \in 1..Len(s) : s[i] \notin Whitespace}
  IN  IF keep = {} THEN <<>> ELSE SubSeq(s, SetMin(keep), SetMax(keep))

\* str.split(sep)[0] for a one-character sep
split_first(s, sep) ==
  LET at == {i \in 1..Len(s) : s[i] = sep}
  IN  IF at = {} THEN s ELSE SubSeq(s, 1, SetMin(at) - 1)

\* sep.join(parts)
RECURSIVE join(_, _)
join(sep, parts) ==
  IF parts = <<>> THEN <<>>
  ELSE IF Len(parts) = 1 THEN parts[1]
  ELSE parts[1] \o sep \o join(sep, Tail(parts))

\* str.split(): the maximal runs of non-whitespace characters
RECURSIVE split_ws(_)
split_ws(s) ==
  LET keep == {i \in 1..Len(s) : s[i] \notin Whitespace}
  IN  IF keep = {} THEN <<>>
      ELSE LET b == SetMin(keep)
               stop == {i \in b..Len(s) : s[i] \in Whitespace}
               e == IF stop = {} THEN Len(s) ELSE SetMin(stop) - 1
           IN  <<SubSeq(s, b, e)>> \o split_ws(SubSeq(s, e + 1, Len(s)))

\* str(n) / f"{n}" for an int n >= 0
RECURSIVE int_str(_)
int_str(n) ==
  IF n < 10 THEN <<Digits[n + 1]>>
  ELSE int_str(n \div 10) \o <<Digits[(n % 10) + 1]>>

\* f"{x:.1f}" for x = num / den decimetres, printed in metres: the nearest
\* multiple of 0.1, an exact tie going to the even digit
fmt_1f(num, den) ==
  LET q == num \div den
      r == num % den
      t == IF 2 * r > den \/ (2 * r = den /\ q % 2 = 1) THEN q + 1 ELSE q
  IN  int_str(t \div 10) \o <<".">> \o <<Digits[(t % 10) + 1]>>

\* Series.dropna()
dropna(s) == SelectSeq(s, LAMBDA x : ~isna(x))

\* Series.unique(): distinct values in order of first appearance
RECURSIVE unique(_)
unique(s) ==
  IF s = <<>> THEN <<>>
  ELSE LET r == unique(SubSeq(s, 1, Len(s) - 1))
           x == s[Len(s)]
       IN  IF \E i \in 1..Len(r) : r[i] = x THEN r ELSE Append(r, x)

\* sorted(strings): ascending lexical order (insertion of each item after
\* every item that is not greater, which is what a stable sort yields)
RECURSIVE sorted(_)
sorted(s) ==
  IF s = <<>> THEN <<>>
  ELSE LET r == sorted(SubSeq(s, 1, Len(s) - 1))
           x == s[Len(s)]
           p == Cardinality({i \in 1..Len(r) : ~StrLess(x, r[i])})
       IN  SubSeq(r, 1, p) \o <<x>> \o SubSeq(r, p + 1, Len(r))

\* sorted(items, key=...) as the positions of the items in their new order:
\* stable, ascending by keys[position]
RECURSIVE sorted_by(_)
sorted_by(keys) ==
  IF keys = <<>> THEN <<>>
  ELSE LET n == Len(keys)
           r == sorted_by(SubSeq(keys, 1, n - 1))
           p == Cardinality({i \in 1..Len(r) : keys[r[i]] <= keys[n]})
       IN  SubSeq(r, 1, p) \o <<n>> \o SubSeq(r, p + 1, Len(r))

Column(d, name) == list([i \in 1..Len(d) |-> d[i][name]])

\* the most frequent non-null value, the one met first when several are
\* equally frequent
mode0_first_seen(s, default) ==
  LET v == dropna(s)
      count(x) == Cardinality({i \in 1..Len(v) : v[i] = x})
      vals == {v[i] : i \in 1..Len(v)}
      top == {x \in vals : \A y \in vals : count(y) <= count(x)}
  IN  IF vals = {} THEN default
      ELSE v[SetMin({i \in 1..Len(v) : v[i] \in top})]

\* Series.mode()[0]: the most frequent non-null value, the smallest one
\* when several are equally frequent (mode() returns them sorted)
mode0(s, default) ==
  LET v == dropna(s)
      count(x) == Cardinality({i \in 1..Len(v) : v[i] = x})
      vals == {v[i] : i \in 1..Len(v)}
      top == {x \in vals : \A y \in vals : count(y) <= count(x)}
  IN  IF vals = {} THEN default
      ELSE CHOOSE x \in top : \A y \in top : y = x \/ StrLess(x, y)

----------------------------------------------------------------------------
(* classify_soil_group *)

\* classify_soil_group that matches the code as given, untrimmed
classify_soil_group_untrimmed(code) ==
  IF isna(code) THEN <<"U", "n", "k", "n", "o", "w", "n">>
  ELSE IF code \in {<<"C", "L">>, <<"C", "L", "-", "C", "I">>} THEN <<"C", "L", "_", "G", "r", "o", "u", "p">>
  ELSE IF code \in {<<"C", "I">>, <<"C", "I", "-", "C", "H">>} THEN <<"C", "I", "_", "G", "r", "o", "u", "p">>
  ELSE IF code = <<"C", "H">> THEN <<"C", "H", "_", "G", "r", "o", "u", "p">>
  ELSE IF code \in {<<"G", "W">>, <<"G", "P">>, <<"G", "M">>, <<"G", "C">>} THEN <<"G", "r", "a", "v", "e", "l", "_", "G", "r", "o", "u", "p">>
  ELSE IF code \in {<<"S", "W">>, <<"S", "P">>, <<"S", "M">>, <<"S", "C">>} THEN <<"S", "a", "n", "d", "_", "G", "r", "o", "u", "p">>
  ELSE IF code \in {<<"M", "L">>, <<"M", "H">>} THEN <<"S", "i", "l", "t", "_", "G", "r", "o", "u", "p">>
  ELSE code

classify_soil_group(code) ==
  IF isna(code) THEN <<"U", "n", "k", "n", "o", "w", "n">>
  ELSE LET l == strip(code)
       IN  IF l \in {<<"C", "L">>, <<"C", "L", "-", "C", "I">>} THEN <<"C", "L", "_", "G", "r", "o", "u", "p">>
           ELSE IF l \in {<<"C", "I">>, <<"C", "I", "-", "C", "H">>} THEN <<"C", "I", "_", "G", "r", "o", "u", "p">>
           ELSE IF l = <<"C", "H">> THEN <<"C", "H", "_", "G", "r", "o", "u", "p">>
           ELSE IF l \in {<<"G", "W">>, <<"G", "P">>, <<"G", "M">>, <<"G", "C">>} THEN <<"G", "r", "a", "v", "e", "l", "_", "G", "r", "o", "u", "p">>
           ELSE IF l \in {<<"S", "W">>, <<"S", "P">>, <<"S", "M">>, <<"S", "C">>} THEN <<"S", "a", "n", "d", "_", "G", "r", "o", "u", "p">>
           ELSE IF l \in {<<"M", "L">>, <<"M", "H">>} THEN <<"S", "i", "l", "t", "_", "G", "r", "o", "u", "p">>
           ELSE l

----------------------------------------------------------------------------
(* assign_geological_units *)

\* df['AvgDepth'] = (df['TOP'] + df['BASE']) / 2, in units of 0.05 m
AvgDepth(l) == l.TOP + l.BASE

fillna(x, v) == IF isna(x) THEN v ELSE x

\* df['GroupKey'] = df['Origin1'].fillna('Unknown') + '_' + df['ClassGroup']
GroupKey(l) ==
  fillna(l.Origin1, <<"U", "n", "k", "n", "o", "w", "n">>) \o <<"_">> \o classify_soil_group(l.Legend)

\* groupby('GroupKey')['AvgDepth'].mean() of one key, as <<sum, count>>
GroupMean(d, k) ==
  LET m == SelectSeq(d, LAMBDA l : GroupKey(l) = k)
  IN  <<SumSeq(list([i \in 1..Len(m) |-> AvgDepth(m[i])])), Len(m)>>

MeanLeq(a, b) == a[1] * b[2] <= b[1] * a[2]

\* group_depths that fails on a frame without rows (no arrangement is returned)
\* the distinct keys in the order in which the layers first show them
group_depths_discovery(d) ==
  {unique([i \in 1..Len(d) |-> GroupKey(d[i])])}

group_depths_nonempty(d) ==
  LET keys == unique([i \in 1..Len(d) |-> GroupKey(d[i])])
      n == Len(keys)
      mean == list([k \in 1..n |-> GroupMean(d, keys[k])])
      perms == {p \in [1..n -> 1..n] :
                  \A i, j \in 1..n :
                     i < j => p[i] # p[j] /\ MeanLeq(mean[p[i]], mean[p[j]])}
  IN  IF d = <<>> THEN {} ELSE {[i \in 1..n |-> keys[p[i]]] : p \in perms}

\* group_depths.index: the distinct keys in ascending order of their mean.
\* sort_values() uses the default kind, quicksort, which is not stable: every
\* arrangement of keys with equal means is a possible outcome.
group_depths(d) ==
  LET keys == unique([i \in 1..Len(d) |-> GroupKey(d[i])])
      n == Len(keys)
      mean == list([k \in 1..n |-> GroupMean(d, keys[k])])
      perms == {p \in [1..n -> 1..n] :
                  \A i, j \in 1..n :
                     i < j => p[i] # p[j] /\ MeanLeq(mean[p[i]], mean[p[j]])}
  IN  {[i \in 1..n |-> keys[p[i]]] : p \in perms}

origin_prefix(origin) ==
  IF origin = <<"F", "i", "l", "l">> THEN <<"F">>
  ELSE IF origin = <<"R", "e", "s", "i", "d", "u", "a", "l">> THEN <<"R">>
  ELSE IF origin = <<"A", "l", "l", "u", "v", "i", "u", "m">> THEN <<"A", "L">>
  ELSE IF origin = <<"C", "o", "l", "l", "u", "v", "i", "u", "m">> THEN <<"C", "O">>
  ELSE <<"U">>

\* the loop over group_depths.index; dictionaries are functions
RECURSIVE assign_loop(_, _, _)
assign_loop(keys, origin_counters, unit_assignments) ==
  IF keys = <<>>
  THEN [origin_counters |-> origin_counters, unit_assignments |-> unit_assignments]
  ELSE LET group_key == Head(keys)
           origin == split_first(group_key, "_")
           prefix == origin_prefix(origin)
           n == (IF origin \in DOMAIN origin_counters
                 THEN origin_counters[origin] ELSE 0) + 1
           unit_code == prefix \o int_str(n)
       IN  assign_loop(Tail(keys),
                       (origin :> n) @@ origin_counters,
                       (group_key :> unit_code) @@ unit_assignments)

\* the returned frame: every row with AvgDepth, ClassGroup, GroupKey, Unit added
assign_geological_units(d, order) ==
  LET a == assign_loop(order, <<>>, <<>>).unit_assignments
  IN  list([i \in 1..Len(d) |->
         d[i] @@ [AvgDepth |-> AvgDepth(d[i]),
                  ClassGroup |-> classify_soil_group(d[i].Legend),
                  GroupKey |-> GroupKey(d[i]),
                  Unit |-> a[GroupKey(d[i])]]])

----------------------------------------------------------------------------
(* generate_unit_description *)

\* class_str with the codes left in the order of the layers
classification_range_unsorted(u) ==
  LET classifications == unique(dropna(Column(u, "Legend")))
  IN  IF Len(classifications) = 1 THEN <<"(">> \o classifications[1] \o <<")">>
      ELSE IF Len(classifications) > 1
           THEN <<"(">> \o join(<<" ", "t", "o", " ">>, classifications) \o <<")">>
      ELSE <<>>

\* class_str
classification_range(u) ==
  LET classifications == sorted(unique(dropna(Column(u, "Legend"))))
  IN  IF Len(classifications) = 1 THEN <<"(">> \o classifications[1] \o <<")">>
      ELSE IF Len(classifications) > 1
           THEN <<"(">> \o join(<<" ", "t", "o", " ">>, classifications) \o <<")">>
      ELSE <<>>

\* plasticity_str
plasticity_descriptor(u, cols) ==
  LET plas_vals == unique(dropna(Column(u, "PlasticityMin")))
      joiners == unique(dropna(Column(u, "PlasticityJoiner")))
      plas_max == unique(dropna(Column(u, "PlasticityMax")))
      parts1 == IF "PlasticityMin" \in cols /\ Len(plas_vals) > 0
                THEN <<plas_vals[1]>> ELSE <<>>
      parts2 == IF "PlasticityJoiner" \in cols /\ Len(joiners) > 0
                   /\ joiners[1] = <<"t", "o">>
                THEN Append(parts1, <<"t", "o">>) ELSE parts1
      parts3 == IF "PlasticityMax" \in cols /\ Len(plas_max) > 0
                   /\ (\E i \in 1..Len(parts2) : parts2[i] = <<"t", "o">>)
                THEN Append(parts2, plas_max[1]) ELSE parts2
  IN  IF parts3 # <<>> THEN join(<<" ">>, parts3) \o <<" ", "p", "l", "a", "s", "t", "i", "c", "i", "t", "y">> ELSE <<>>

\* color_str
color_range(u) ==
  LET colors == unique(dropna(Column(u, "Color")))
  IN  IF Len(colors) = 1 THEN colors[1]
      ELSE IF Len(colors) > 1
           THEN colors[1] \o <<" ", "t", "o", " ">> \o colors[Len(colors)]
      ELSE <<>>

generate_unit_description(u, cols) ==
  IF u = <<>> THEN <<>>
  ELSE
  LET origin == mode0(Column(u, "Origin1"), <<"U", "n", "k", "n", "o", "w", "n">>)
      primary_material ==
        IF "PrimaryName" \in cols
        THEN upper(mode0(Column(u, "PrimaryName"), <<"S", "O", "I", "L">>))
        ELSE <<"S", "O", "I", "L">>
      class_str == classification_range(u)
      plasticity_str == plasticity_descriptor(u, cols)
      color_str == color_range(u)
      qualifiers == unique(dropna(Column(u, "PrimaryNameQualifier")))
      remarks == unique(dropna(Column(u, "Remarks")))
      desc_parts ==
        (IF plasticity_str # <<>> THEN <<plasticity_str>> ELSE <<>>)
        \o (IF color_str # <<>> THEN <<color_str>> ELSE <<>>)
        \o (IF "PrimaryNameQualifier" \in cols /\ Len(qualifiers) > 0
            THEN <<lower(qualifiers[1])>> ELSE <<>>)
      parts ==
        <<upper(origin) \o <<" ", EnDash>>, primary_material>>
        \o (IF class_str # <<>> THEN <<class_str \o <<":">>>> ELSE <<>>)
        \o (IF desc_parts # <<>> THEN <<join(<<",", " ">>, desc_parts)>> ELSE <<>>)
        \o (IF "Remarks" \in cols /\ Len(remarks) > 0
            THEN <<remarks[1]>> ELSE <<>>)
  IN  join(<<" ">>, split_ws(strip(join(<<" ">>, parts))))

----------------------------------------------------------------------------
(* generate_extent_statement *)

\* summary_df with the boreholes left in the order of the layers
bh_summary_unsorted(u) ==
  LET ids == unique(Column(u, "POINT_ID"))
  IN  list([i \in 1..Len(ids) |->
         LET bh_data == SelectSeq(u, LAMBDA l : l.POINT_ID = ids[i])
         IN  [BH |-> ids[i],
              TOP |-> SetMin({bh_data[k].TOP : k \in 1..Len(bh_data)}),
              BASE |-> SetMax({bh_data[k].BASE : k \in 1..Len(bh_data)})]])

\* summary_df: one row per borehole of the unit, boreholes in sorted order
bh_summary(u) ==
  LET ids == sorted(unique(Column(u, "POINT_ID")))
  IN  list([i \in 1..Len(ids) |->
         LET bh_data == SelectSeq(u, LAMBDA l : l.POINT_ID = ids[i])
         IN  [BH |-> ids[i],
              TOP |-> SetMin({bh_data[k].TOP : k \in 1..Len(bh_data)}),
              BASE |-> SetMax({bh_data[k].BASE : k \in 1..Len(bh_data)})]])

ColMin(s, name) == SetMin({s[i][name] : i \in 1..Len(s)})

ColMax(s, name) == SetMax({s[i][name] : i \in 1..Len(s)})

\* the test with the tolerances themselves counted as uniform
is_uniform_inclusive(top_var, base_var) == top_var <= 2 /\ base_var <= 3

\* top_var < 0.2 and base_var < 0.3, the tolerances being 2 and 3 decimetres
is_uniform(top_var, base_var) == top_var < 2 /\ base_var < 3

\* bh_list
bh_list(summary_df) == join(<<",", " ">>, Column(summary_df, "BH"))

generate_extent_statement(u) ==
  IF u = <<>> THEN <<>>
  ELSE
  LET summary_df == bh_summary(u)
      n == Len(summary_df)
      top_var == ColMax(summary_df, "TOP") - ColMin(summary_df, "TOP")
      base_var == ColMax(summary_df, "BASE") - ColMin(summary_df, "BASE")
      bhs == bh_list(summary_df)
      top_sum == SumSeq(Column(summary_df, "TOP"))
      base_sum == SumSeq(Column(summary_df, "BASE"))
  IN  IF is_uniform(top_var, base_var)
      THEN IF top_sum < n
           THEN <<"E", "n", "c", "o", "u", "n", "t", "e", "r", "e", "d", " ", "f", "r", "o", "m", " ", "s", "u", "r", "f", "a", "c", "e", " ", "t", "o", " ", "a", "p", "p", "r", "o", "x", "i", "m", "a", "t", "e", "l", "y", " ">>
                \o fmt_1f(base_sum, n) \o <<" ", "m", "b", "g", "l", " ", "i", "n", " ">> \o bhs \o <<".">>
           ELSE <<"E", "n", "c", "o", "u", "n", "t", "e", "r", "e", "d", " ", "f", "r", "o", "m", " ", "a", "p", "p", "r", "o", "x", "i", "m", "a", "t", "e", "l", "y", " ">> \o fmt_1f(top_sum, n)
                \o <<" ", "t", "o", " ">> \o fmt_1f(base_sum, n)
                \o <<" ", "m", "b", "g", "l", " ", "i", "n", " ">> \o bhs \o <<".">>
      ELSE LET depth_desc ==
                 IF ColMin(summary_df, "TOP") < 1
                 THEN <<"f", "r", "o", "m", " ", "s", "u", "r", "f", "a", "c", "e", " ", "t", "o", " ">>
                      \o fmt_1f(ColMin(summary_df, "BASE"), 1) \o <<"-">>
                      \o fmt_1f(ColMax(summary_df, "BASE"), 1) \o <<" ", "m", "b", "g", "l">>
                 ELSE <<"f", "r", "o", "m", " ">> \o fmt_1f(ColMin(summary_df, "TOP"), 1)
                      \o <<" ", "t", "o", " ">> \o fmt_1f(ColMax(summary_df, "BASE"), 1)
                      \o <<" ", "m", "b", "g", "l">>
           IN  <<"E", "n", "c", "o", "u", "n", "t", "e", "r", "e", "d", " ">> \o depth_desc \o <<" ", "i", "n", " ">> \o bhs
               \o <<".", " ", "D", "e", "p", "t", "h", " ", "v", "a", "r", "i", "e", "s", " ", "a", "c", "r", "o", "s", "s", " ", "b", "o", "r", "e", "h", "o", "l", "e", "s", ".">>

----------------------------------------------------------------------------
(* create_subsurface_summary_table *)

UnitData(dwu, unit_code) == SelectSeq(dwu, LAMBDA l : l.Unit = unit_code)

\* the sort key taken as the largest AvgDepth of the unit
unit_sort_key_max(dwu, unit_code) ==
  LET unit_data == UnitData(dwu, unit_code)
  IN  SetMax({unit_data[i].AvgDepth : i \in 1..Len(unit_data)})

\* the sort key of a unit code: df_with_units[Unit == x]['AvgDepth'].min()
unit_sort_key(dwu, unit_code) ==
  LET unit_data == UnitData(dwu, unit_code)
  IN  SetMin({unit_data[i].AvgDepth : i \in 1..Len(unit_data)})

\* the unit codes in the order of the rows
unit_order(dwu) ==
  LET units == unique(Column(dwu, "Unit"))
      keys == list([i \in 1..Len(units) |-> unit_sort_key(dwu, units[i])])
      at == sorted_by(keys)
  IN  list([i \in 1..Len(units) |-> units[at[i]]])

\* summary_rows; Text is the combined description / extent column
summary_rows(dwu, cols) ==
  LET codes == unit_order(dwu)
  IN  list([i \in 1..Len(codes) |->
         LET unit_data == UnitData(dwu, codes[i])
         IN  [Unit |-> codes[i],
              Text |-> generate_unit_description(unit_data, cols)
                       \o <<"\n", "\n">> \o generate_extent_statement(unit_data)]])

----------------------------------------------------------------------------
(* Inputs *)

Layer(point_id, top, base, code, origin, pmin, pjoin, pmax) ==
  [POINT_ID |-> point_id, TOP |-> top, BASE |-> base, Legend |-> code,
   Origin1 |-> origin, Color |-> NaN, PrimaryName |-> NaN,
   PlasticityMin |-> pmin, PlasticityJoiner |-> pjoin, PlasticityMax |-> pmax,
   PrimaryNameQualifier |-> NaN, Remarks |-> NaN]

\* load_borehole_data returns the rows sorted by POINT_ID, then TOP
LoadedOrder(d) ==
  \A i \in 1..Len(d) - 1 :
     \/ StrLess(d[i].POINT_ID, d[i + 1].POINT_ID)
     \/ d[i].POINT_ID = d[i + 1].POINT_ID /\ d[i].TOP <= d[i + 1].TOP

Frames(layers) == UNION {[1..n -> layers] : n \in 0..MaxLayers}

LoadedFrames(layers) == {d \in Frames(layers) : LoadedOrder(d)}

\* one borehole, layers 0.1 m thick, origins inside and outside the prefix table
OriginLayers ==
  {Layer(<<"B", "H", "0", "1">>, t, t + 1, <<"C", "H">>, origin, NaN, NaN, NaN) :
     t \in 0..(MaxDepth - 2),
     origin \in {NaN, <<"M", "a", "r", "i", "n", "e">>, <<"F", "i", "l", "l">>, <<"F", "i", "l", "l", "_", "o", "l", "d">>}}

\* two boreholes, layers 0.1 m thick, one origin, two classification groups
GroupLayers ==
  {Layer(bh, t, t + 1, code, <<"F", "i", "l", "l">>, NaN, NaN, NaN) :
     bh \in {<<"B", "H", "0", "1">>, <<"B", "H", "0", "2">>},
     t \in 0..(MaxDepth - 1),
     code \in {<<"C", "H">>, <<"S", "M">>}}

\* layers of one unit in two boreholes, thin or reaching down to MaxDepth
ExtentLayers ==
  {Layer(bh, tb[1], tb[2], <<"C", "H">>, <<"F", "i", "l", "l">>, NaN, NaN, NaN) :
     bh \in {<<"B", "H", "1", "0">>, <<"B", "H", "2">>},
     tb \in {x \in (0..(MaxDepth - 1)) \X (1..MaxDepth) :
               x[2] = x[1] + 1 \/ (x[2] = MaxDepth /\ x[1] < x[2])}}

PlasticityColumns == {"PlasticityMin", "PlasticityJoiner", "PlasticityMax"}

\* layers of one unit that differ in classification code
LegendLayers ==
  {Layer(<<"B", "H", "0", "1">>, 0, 1, code, <<"F", "i", "l", "l">>, NaN, NaN, NaN) :
     code \in {NaN, <<"C", "H">>, <<"C", "I">>, <<"C", "I", "-", "C", "H">>, <<"C", "L">>}}

\* layers of one unit that differ in the plasticity attributes
PlasticityLayers ==
  {Layer(<<"B", "H", "0", "1">>, 0, 1, <<"C", "H">>, <<"F", "i", "l", "l">>, pmin, pjoin, pmax) :
     pmin \in {NaN, <<"l", "o", "w">>}, pjoin \in {NaN, <<"t", "o">>}, pmax \in {NaN, <<"h", "i", "g", "h">>}}
  \cup {Layer(<<"B", "H", "0", "1">>, 0, 1, <<"C", "H">>, <<"F", "i", "l", "l">>, <<"l", "o", "w">>, <<"a", "n", "d">>, <<"h", "i", "g", "h">>)}

\* layers handed to generate_unit_description that differ in origin
MixedOriginLayers ==
  {Layer(<<"B", "H", "0", "1">>, 0, 1, <<"C", "H">>, origin, NaN, NaN, NaN) :
     origin \in {NaN, <<"F", "i", "l", "l">>, <<"R", "e", "s", "i", "d", "u", "a", "l">>, <<"A", "l", "l", "u", "v", "i", "u", "m">>}}

Pads == UNION {[1..n -> {" ", "\t"}] : n \in 0..MaxPad}

Codes ==
  {<<"C", "L">>, <<"C", "L", "-", "C", "I">>, <<"C", "I">>, <<"C", "I", "-", "C", "H">>, <<"C", "H">>, <<"G", "W">>, <<"G", "P">>, <<"G", "M">>, <<"G", "C">>,
   <<"S", "W">>, <<"S", "P">>, <<"S", "M">>, <<"S", "C">>, <<"M", "L">>, <<"M", "H">>,
   <<"O", "L">>, <<"O", "H">>, <<"P", "t">>, <<"c", "l">>, <<"C", " ", "L">>, <<"C", "L", "X">>, <<"C", "H", "-", "C", "I">>, <<"U", "n", "k", "n", "o", "w", "n">>, <<>>}

LegendArgs == {NaN} \cup {l \o c \o r : l \in Pads, c \in Codes, r \in Pads}

----------------------------------------------------------------------------
(* The calls *)

\* main: summary_table = create_subsurface_summary_table(df)
Init ==
  /\ df \in LoadedFrames(OriginLayers) \cup LoadedFrames(GroupLayers)
  /\ columns = {}
  /\ pc = "create_subsurface_summary_table"
  /\ df_with_units = <<>> /\ summary_table = <<>>
  /\ unit_df = <<>> /\ description = <<>> /\ extent = <<>>
  /\ legend = NaN /\ group = NaN

CreateSubsurfaceSummaryTable ==
  /\ pc = "create_subsurface_summary_table"
  /\ \E order \in group_depths(df) :
        LET dwu == assign_geological_units(df, order)
        IN  /\ df_with_units' = dwu
            /\ summary_table' = summary_rows(dwu, columns)
  /\ pc' = "done"
  /\ UNCHANGED <<df, columns, unit_df, description, extent, legend, group>>

Next == CreateSubsurfaceSummaryTable

Spec == Init /\ [][Next]_vars

\* extent = generate_extent_statement(unit_data)
InitExtent ==
  /\ unit_df \in Frames(ExtentLayers)
  /\ columns = {}
  /\ pc = "generate_extent_statement"
  /\ df = <<>> /\ df_with_units = <<>> /\ summary_table = <<>>
  /\ description = <<>> /\ extent = <<>>
  /\ legend = NaN /\ group = NaN

GenerateExtentStatement ==
  /\ pc = "generate_extent_statement"
  /\ extent' = generate_extent_statement(unit_df)
  /\ pc' = "done"
  /\ UNCHANGED <<df, columns, df_with_units, summary_table, unit_df,
                 description, legend, group>>

NextExtent == GenerateExtentStatement

SpecExtent == InitExtent /\ [][NextExtent]_vars

\* description = generate_unit_description(unit_data)
InitDescription ==
  /\ \/ unit_df \in Frames(LegendLayers) /\ columns = {}
     \/ unit_df \in Frames(PlasticityLayers) /\ columns \in SUBSET PlasticityColumns
  /\ pc = "generate_unit_description"
  /\ df = <<>> /\ df_with_units = <<>> /\ summary_table = <<>>
  /\ description = <<>> /\ extent = <<>>
  /\ legend = NaN /\ group = NaN

GenerateUnitDescription ==
  /\ pc = "generate_unit_description"
  /\ description' = generate_unit_description(unit_df, columns)
  /\ pc' = "done"
  /\ UNCHANGED <<df, columns, df_with_units, summary_table, unit_df,
                 extent, legend, group>>

NextDescription == GenerateUnitDescription

SpecDescription == InitDescription /\ [][NextDescription]_vars

\* description = generate_unit_description(unit_data), origins differing
InitOrigin ==
  /\ unit_df \in Frames(MixedOriginLayers)
  /\ columns = {}
  /\ pc = "generate_unit_description"
  /\ df = <<>> /\ df_with_units = <<>> /\ summary_table = <<>>
  /\ description = <<>> /\ extent = <<>>
  /\ legend = NaN /\ group = NaN

NextOrigin == GenerateUnitDescription

SpecOrigin == InitOrigin /\ [][NextOrigin]_vars

\* df['ClassGroup'] = df['Legend'].apply(classify_soil_group), one value
InitClassify ==
  /\ legend \in LegendArgs
  /\ pc = "classify_soil_group"
  /\ df = <<>> /\ columns = {} /\ df_with_units = <<>> /\ summary_table = <<>>
  /\ unit_df = <<>> /\ description = <<>> /\ extent = <<>>
  /\ group = NaN

ClassifySoilGroup ==
  /\ pc = "classify_soil_group"
  /\ group' = classify_soil_group(legend)
  /\ pc' = "done"
  /\ UNCHANGED <<df, columns, df_with_units, summary_table, unit_df,
                 description, extent, legend>>

NextClassify == ClassifySoilGroup

SpecClassify == InitClassify /\ [][NextClassify]_vars

----------------------------------------------------------------------------
(* Reading the results *)

StartsWith(s, pre) == Len(pre) <= Len(s) /\ SubSeq(s, 1, Len(pre)) = pre

EndsWith(s, suf) ==
  Len(suf) <= Len(s) /\ SubSeq(s, Len(s) - Len(suf) + 1, Len(s)) = suf

\* the positions at which pat occurs in s
Occurrences(s, pat) ==
  {i \in 1..(Len(s) - Len(pat) + 1) : SubSeq(s, i, i + Len(pat) - 1) = pat}

Contains(s, pat) == Occurrences(s, pat) # {}

\* s cut at every occurrence of sep
RECURSIVE SplitOn(_, _)
SplitOn(s, sep) ==
  IF Occurrences(s, sep) = {} THEN <<s>>
  ELSE LET i == SetMin(Occurrences(s, sep))
       IN  <<SubSeq(s, 1, i - 1)>> \o SplitOn(SubSeq(s, i + Len(sep), Len(s)), sep)

IsDigit(c) == \E k \in 1..10 : Digits[k] = c

\* a unit code without its trailing digits
CodePrefix(code) ==
  LET letters == {i \in 1..Len(code) : ~IsDigit(code[i])}
  IN  IF letters = {} THEN <<>> ELSE SubSeq(code, 1, SetMax(letters))

RECURSIVE DecimalValue(_)
DecimalValue(ds) ==
  IF ds = <<>> THEN 0
  ELSE 10 * DecimalValue(SubSeq(ds, 1, Len(ds) - 1))
       + (CHOOSE k \in 0..9 : Digits[k + 1] = ds[Len(ds)])

\* the number a unit code ends with
CodeNumber(code) ==
  DecimalValue(SubSeq(code, Len(CodePrefix(code)) + 1, Len(code)))

Prefixes == {<<"F">>, <<"R">>, <<"A", "L">>, <<"C", "O">>, <<"U">>}

WellFormedCode(code) ==
  /\ CodePrefix(code) \in Prefixes
  /\ Len(code) > Len(CodePrefix(code))
  /\ CodeNumber(code) >= 1
  /\ code = CodePrefix(code) \o int_str(CodeNumber(code))

\* one mean, given as <<sum, count>>, strictly below another
MeanLess(a, b) == a[1] * b[2] < b[1] * a[2]

AssignedKeys == {df_with_units[i].GroupKey : i \in 1..Len(df_with_units)}

CodeOf(k) ==
  df_with_units[CHOOSE i \in 1..Len(df_with_units) : df_with_units[i].GroupKey = k].Unit

\* the smallest (TOP + BASE) / 2 among the input layers given unit code u
MinAvgDepthOf(u) ==
  SetMin({df[i].TOP + df[i].BASE :
            i \in {j \in 1..Len(df) : df_with_units[j].Unit = u}})

----------------------------------------------------------------------------
(* Unit assignment and the summary table *)

\* C1: the unit codes of one run are globally unique: two distinct GroupKeys
\* never receive the same unit code, also when several origins outside
\* {Fill, Residual, Alluvium, Colluvium} are present, and every code is a
\* prefix from {F, R, AL, CO, U} followed by a positive integer.
C1_UnitCodesUnique ==
  pc = "done" =>
    /\ \A i, j \in 1..Len(df_with_units) :
          df_with_units[i].GroupKey # df_with_units[j].GroupKey
            => df_with_units[i].Unit # df_with_units[j].Unit
    /\ \A i \in 1..Len(df_with_units) : WellFormedCode(df_with_units[i].Unit)

\* C3: the rows of the summary table are in ascending order of each unit's
\* minimum avg_depth over its member layers: of two adjacent rows the first's
\* minimum is <= the second's.
C3_RowsAscendingByMinAvgDepth ==
  pc = "done" =>
    \A r \in 1..(Len(summary_table) - 1) :
       MinAvgDepthOf(summary_table[r].Unit) <= MinAvgDepthOf(summary_table[r + 1].Unit)

\* a table whose first row is a unit that is not the first one met in the
\* input, because a unit met later reaches a strictly smaller depth
C3_Witness ==
  /\ pc = "done"
  /\ Len(summary_table) >= 2
  /\ summary_table[1].Unit # df_with_units[1].Unit
  /\ MinAvgDepthOf(summary_table[1].Unit) < MinAvgDepthOf(summary_table[2].Unit)

\* the origin-to-prefix table of the specification, applied to a layer's
\* whole origin value
TablePrefix(origin) ==
  IF origin = <<"F", "i", "l", "l">> THEN <<"F">>
  ELSE IF origin = <<"R", "e", "s", "i", "d", "u", "a", "l">> THEN <<"R">>
  ELSE IF origin = <<"A", "l", "l", "u", "v", "i", "u", "m">> THEN <<"A", "L">>
  ELSE IF origin = <<"C", "o", "l", "l", "u", "v", "i", "u", "m">> THEN <<"C", "O">>
  ELSE <<"U">>

\* C6: the prefix of the unit code assigned to a layer is given by that
\* layer's origin value: Fill -> F, Residual -> R, Alluvium -> AL,
\* Colluvium -> CO, and any other origin (a missing one, or a string such as
\* Fill_old that only begins with one of those words and a '_') -> U.
C6_PrefixFromOrigin ==
  pc = "done" =>
    \A i \in 1..Len(df) :
       CodePrefix(df_with_units[i].Unit) = TablePrefix(df[i].Origin1)

\* C7: within each prefix the numbers of the k GroupKeys are exactly 1..k,
\* and a GroupKey with a strictly smaller mean avg_depth has a strictly
\* smaller number.
C7_NumbersPerPrefix ==
  pc = "done" =>
    \A p \in {CodePrefix(CodeOf(k)) : k \in AssignedKeys} :
       LET K == {k \in AssignedKeys : CodePrefix(CodeOf(k)) = p}
       IN  /\ {CodeNumber(CodeOf(k)) : k \in K} = 1..Cardinality(K)
           /\ \A a, b \in K :
                 MeanLess(GroupMean(df, a), GroupMean(df, b))
                   => CodeNumber(CodeOf(a)) < CodeNumber(CodeOf(b))

\* C8: on an input with zero layers create_subsurface_summary_table does not
\* raise (the call completes) and returns no rows, and
\* assign_geological_units assigns nothing.
C8_EmptyInput ==
  /\ (pc = "create_subsurface_summary_table" /\ df = <<>>)
       => ENABLED CreateSubsurfaceSummaryTable
  /\ (pc = "done" /\ df = <<>>) => (summary_table = <<>> /\ df_with_units = <<>>)

\* the call on zero layers has returned
C8_Witness == pc = "done" /\ df = <<>> /\ summary_table = <<>>

----------------------------------------------------------------------------
(* generate_extent_statement *)

Varies == <<"D", "e", "p", "t", "h", " ", "v", "a", "r", "i", "e", "s", " ", "a", "c", "r", "o", "s", "s", " ", "b", "o", "r", "e", "h", "o", "l", "e", "s", ".">>

Boreholes(u) == {u[i].POINT_ID : i \in 1..Len(u)}

TopOf(u, bh) == SetMin({u[i].TOP : i \in {j \in 1..Len(u) : u[j].POINT_ID = bh}})

BaseOf(u, bh) == SetMax({u[i].BASE : i \in {j \in 1..Len(u) : u[j].POINT_ID = bh}})

TopSpread(u) ==
  SetMax({TopOf(u, bh) : bh \in Boreholes(u)}) - SetMin({TopOf(u, bh) : bh \in Boreholes(u)})

BaseSpread(u) ==
  SetMax({BaseOf(u, bh) : bh \in Boreholes(u)}) - SetMin({BaseOf(u, bh) : bh \in Boreholes(u)})

\* C2: for a non-empty unit the statement has the uniform wording (without
\* 'Depth varies across boreholes.') exactly when top_spread < 0.2 and
\* base_spread < 0.3; in every other case, a spread of exactly 0.2 or 0.3
\* included, it ends with 'Depth varies across boreholes.'.
C2_UniformIffWithinTolerance ==
  (pc = "done" /\ unit_df # <<>>) =>
    IF TopSpread(unit_df) < 2 /\ BaseSpread(unit_df) < 3
    THEN ~Contains(extent, Varies) /\ Contains(extent, <<"a", "p", "p", "r", "o", "x", "i", "m", "a", "t", "e", "l", "y">>)
    ELSE EndsWith(extent, <<" ">> \o Varies)

\* tops exactly 0.2 m apart, bases within tolerance: the variable wording
C2_Witness ==
  /\ pc = "done" /\ unit_df # <<>>
  /\ TopSpread(unit_df) = 2 /\ BaseSpread(unit_df) < 3
  /\ EndsWith(extent, Varies)

\* the borehole ids printed in a statement, between ' mbgl in ' and the '.'
ListedBoreholes(text) ==
  LET from == SetMin(Occurrences(text, <<" ", "m", "b", "g", "l", " ", "i", "n", " ">>)) + 9
      stop == SetMin({i \in from..Len(text) : text[i] = "."})
  IN  SplitOn(SubSeq(text, from, stop - 1), <<",", " ">>)

\* C5: the borehole list of an extent statement is exactly the set of
\* boreholes that contributed a layer to the unit: none missing, none extra,
\* none repeated, in ascending lexical order, joined by ', '.
C5_BoreholeListExact ==
  (pc = "done" /\ unit_df # <<>>) =>
    LET ids == ListedBoreholes(extent)
    IN  /\ {ids[i] : i \in 1..Len(ids)} = Boreholes(unit_df)
        /\ \A i \in 1..(Len(ids) - 1) : StrLess(ids[i], ids[i + 1])

\* BH2 met before BH10, and met twice: printed once each, BH10 first
C5_Witness ==
  /\ pc = "done" /\ Len(unit_df) >= 3
  /\ unit_df[1].POINT_ID = <<"B", "H", "2">> /\ unit_df[2].POINT_ID = <<"B", "H", "1", "0">>
  /\ unit_df[3].POINT_ID = <<"B", "H", "2">>
  /\ ListedBoreholes(extent) = <<<<"B", "H", "1", "0">>, <<"B", "H", "2">>>>

----------------------------------------------------------------------------
(* classify_soil_group *)

GroupTable ==
  [c \in {<<"C", "L">>, <<"C", "L", "-", "C", "I">>} |-> <<"C", "L", "_", "G", "r", "o", "u", "p">>]
  @@ [c \in {<<"C", "I">>, <<"C", "I", "-", "C", "H">>} |-> <<"C", "I", "_", "G", "r", "o", "u", "p">>]
  @@ [c \in {<<"C", "H">>} |-> <<"C", "H", "_", "G", "r", "o", "u", "p">>]
  @@ [c \in {<<"G", "W">>, <<"G", "P">>, <<"G", "M">>, <<"G", "C">>} |-> <<"G", "r", "a", "v", "e", "l", "_", "G", "r", "o", "u", "p">>]
  @@ [c \in {<<"S", "W">>, <<"S", "P">>, <<"S", "M">>, <<"S", "C">>} |-> <<"S", "a", "n", "d", "_", "G", "r", "o", "u", "p">>]
  @@ [c \in {<<"M", "L">>, <<"M", "H">>} |-> <<"S", "i", "l", "t", "_", "G", "r", "o", "u", "p">>]

\* c without the whitespace before its first and after its last other character
Trimmed(c, t) ==
  \E a, b \in 0..Len(c) :
     /\ a + b + Len(t) = Len(c)
     /\ t = SubSeq(c, a + 1, Len(c) - b)
     /\ \A i \in (1..a) \cup ((Len(c) - b + 1)..Len(c)) : c[i] \in Whitespace
     /\ t # <<>> => (t[1] \notin Whitespace /\ t[Len(t)] \notin Whitespace)

\* C4: classify_soil_group returns a value for every code: the group of the
\* table for a code that is in it after trimming, the trimmed code itself for
\* any other non-null code, and 'Unknown' for a null code.
C4_ClassifyMatchesTable ==
  pc = "done" =>
    IF legend = NaN THEN group = <<"U", "n", "k", "n", "o", "w", "n">>
    ELSE \E t \in {SubSeq(legend, a, b) : a \in 1..(Len(legend) + 1), b \in 0..Len(legend)} :
            /\ Trimmed(legend, t)
            /\ group = (IF t \in DOMAIN GroupTable THEN GroupTable[t] ELSE t)

\* a padded transition code classified with its clay group
C4_Witness ==
  /\ pc = "done"
  /\ legend = <<" ", "C", "I", "-", "C", "H", "\t">>
  /\ group = <<"C", "I", "_", "G", "r", "o", "u", "p">>

----------------------------------------------------------------------------
(* generate_unit_description *)

Codes_of(u) == {u[i].Legend : i \in 1..Len(u)} \ {NaN}

\* the codes of S in ascending lexical order, joined by ' to '
Ascending(S) ==
  CHOOSE s \in [1..Cardinality(S) -> S] :
     \A i \in 1..(Cardinality(S) - 1) : StrLess(s[i], s[i + 1])

Heading == <<"F", "I", "L", "L", " ">> \o <<EnDash>> \o <<" ", "S", "O", "I", "L">>

\* C9: the classification range is made of the distinct non-null codes of the
\* unit's layers in ascending lexical order, whatever the order of the
\* layers: '(X)' for one code, the codes joined by ' to ' in parentheses for
\* several, and no classification part when there is none.
C9_ClassificationRange ==
  (pc = "done" /\ unit_df # <<>>) =>
    IF Codes_of(unit_df) = {}
    THEN description = Heading
    ELSE StartsWith(description,
           Heading \o <<" ", "(">> \o join(<<" ", "t", "o", " ">>, Ascending(Codes_of(unit_df))) \o <<")", ":">>)

\* CI met before CH: the range still reads CH to CI
C9_Witness ==
  /\ pc = "done" /\ Len(unit_df) >= 2
  /\ unit_df[1].Legend = <<"C", "I">> /\ unit_df[2].Legend = <<"C", "H">>
  /\ StartsWith(description, Heading \o <<" ", "(", "C", "H", " ", "t", "o", " ", "C", "I">>)

NoPlasticityMin ==
  \/ "PlasticityMin" \notin columns
  \/ \A i \in 1..Len(unit_df) : unit_df[i].PlasticityMin = NaN

\* C10: the plasticity descriptor is empty whenever the unit's layers hold no
\* non-null plasticity minimum, whatever joiner and maximum they hold; when a
\* minimum exists the descriptor starts with the first minimum and ends with
\* ' plasticity'.
C10_NoMinimumNoDescriptor ==
  (pc = "done" /\ unit_df # <<>> /\ Codes_of(unit_df) = {<<"C", "H">>}) =>
    IF NoPlasticityMin
    THEN description = Heading \o <<" ", "(", "C", "H", ")", ":">>
    ELSE /\ StartsWith(description, Heading \o <<" ", "(", "C", "H", ")", ":", " ", "l", "o", "w">>)
         /\ EndsWith(description, <<" ", "p", "l", "a", "s", "t", "i", "c", "i", "t", "y">>)

\* the non-null origins of u, and how often each occurs
Origins_of(u) == {u[i].Origin1 : i \in 1..Len(u)} \ {NaN}

OriginCount(u, o) == Cardinality({i \in 1..Len(u) : u[i].Origin1 = o})

MostFrequentOrigins(u) ==
  {o \in Origins_of(u) : \A x \in Origins_of(u) : OriginCount(u, x) <= OriginCount(u, o)}

\* the most frequent origin that occurs first in u
FirstMet(u) ==
  u[SetMin({i \in 1..Len(u) : u[i].Origin1 \in MostFrequentOrigins(u)})].Origin1

\* the most frequent origin that is first in lexical order
LexicallyFirst(u) ==
  CHOOSE o \in MostFrequentOrigins(u) :
     \A x \in MostFrequentOrigins(u) : x = o \/ StrLess(o, x)

DescribedAs(origin) ==
  StartsWith(description, upper(origin) \o <<" ", EnDash, " ">>)

----------------------------------------------------------------------------
(* Numbering and discovery order *)

\* the origin under which assign_geological_units counts key k
OriginOf(k) == split_first(k, "_")

\* the position of the first layer with key k
Discovered(k) == SetMin({i \in 1..Len(df_with_units) : df_with_units[i].GroupKey = k})

SameMean(a, b) ==
  /\ ~MeanLess(GroupMean(df, a), GroupMean(df, b))
  /\ ~MeanLess(GroupMean(df, b), GroupMean(df, a))

\* C12, as claimed: GroupKeys are ordered ascending by mean avg_depth with a
\* stable sort: of two GroupKeys of the same origin, the one with the smaller
\* mean, or with an equal mean and discovered first in the layer sequence,
\* receives the smaller sequence number.
C12_EqualMeansKeepDiscoveryOrder ==
  pc = "done" =>
    \A a, b \in AssignedKeys :
       (/\ OriginOf(a) = OriginOf(b)
        /\ \/ MeanLess(GroupMean(df, a), GroupMean(df, b))
           \/ SameMean(a, b) /\ Discovered(a) < Discovered(b))
         => CodeNumber(CodeOf(a)) < CodeNumber(CodeOf(b))

\* C12, amended: GroupKeys are ordered ascending by mean avg_depth: the k
\* GroupKeys of one origin receive the numbers 1..k, one each, and the one
\* with a strictly smaller mean receives the smaller number; the order of
\* GroupKeys with equal means does not follow the order of discovery.
C12_AscendingByMean ==
  pc = "done" =>
    \A o \in {OriginOf(k) : k \in AssignedKeys} :
       LET K == {k \in AssignedKeys : OriginOf(k) = o}
       IN  /\ {CodeNumber(CodeOf(k)) : k \in K} = 1..Cardinality(K)
           /\ \A a, b \in K :
                 /\ a # b => CodeNumber(CodeOf(a)) # CodeNumber(CodeOf(b))
                 /\ MeanLess(GroupMean(df, a), GroupMean(df, b))
                      => CodeNumber(CodeOf(a)) < CodeNumber(CodeOf(b))

\* two GroupKeys of origin Fill with equal means: the one discovered second,
\* which is the first of the two in the key order of groupby, has number 1,
\* the one discovered first number 2
C12_Witness ==
  /\ pc = "done"
  /\ \E a, b \in AssignedKeys :
        /\ a # b /\ OriginOf(a) = OriginOf(b) /\ SameMean(a, b)
        /\ Discovered(a) < Discovered(b) /\ StrLess(b, a)
        /\ CodeOf(b) = <<"F", "1">> /\ CodeOf(a) = <<"F", "2">>

\* C13: of two rows of the summary table whose unit codes have the same
\* origin prefix, the one with the smaller sequence number comes first.
C13_NumbersFollowRowOrder ==
  pc = "done" =>
    \A r1, r2 \in 1..Len(summary_table) :
       (/\ CodePrefix(summary_table[r1].Unit) = CodePrefix(summary_table[r2].Unit)
        /\ CodeNumber(summary_table[r1].Unit) < CodeNumber(summary_table[r2].Unit))
         => r1 < r2

====
